---- MODULE Spec2Model ----
(***************************************************************************)
(* Model of github.com/ADTMike/envar: Bind (envar.go), load (load.go) and  *)
(* convert (covert.go).                                                    *)
(*                                                                         *)
(* A Go string is a sequence of one-character strings, so that trimming,   *)
(* splitting and parsing are computed character by character.  The empty   *)
(* Go string "" is <<>>.                                                   *)
(***************************************************************************)
EXTENDS Bags, FiniteSets, Integers, Sequences, TLC

\* ------------------------------------------------------------------------
\* Bounds of the model
\* ------------------------------------------------------------------------

\* longest list of distinct directories handed to Bind
MaxPaths == 2

\* number of successive Bind calls of one behaviour
MaxCalls == 2

\* capacity of the error channel: Ce := make(chan error, 10)
ChanCap == 10

\* the smallest number of loaders that can overfill the error channel
BurstPaths == ChanCap + 1

\* ------------------------------------------------------------------------
\* strings.TrimSpace, strings.HasPrefix, strings.SplitN, strings.Split
\* ------------------------------------------------------------------------

IsSpace(c) == c \in {" ", "\t"}

RECURSIVE TrimLeft(_)
TrimLeft(s) ==
    IF s = <<>> THEN <<>>
    ELSE IF IsSpace(Head(s)) THEN TrimLeft(Tail(s)) ELSE s

RECURSIVE TrimRight(_)
TrimRight(s) ==
    IF s = <<>> THEN <<>>
    ELSE IF IsSpace(s[Len(s)]) THEN TrimRight(SubSeq(s, 1, Len(s) - 1)) ELSE s

TrimSpace(s) == TrimRight(TrimLeft(s))

HasPrefix(s, c) == Len(s) > 0 /\ s[1] = c

\* index of the first occurrence of c in s, 0 when there is none
IndexOf(s, c) ==
    IF \E n \in 1..Len(s) : s[n] = c
    THEN CHOOSE n \in 1..Len(s) : s[n] = c /\ \A m \in 1..(n - 1) : s[m] # c
    ELSE 0

\* strings.SplitN(line, "=", 2): at most two parts, cut at the first "="
SplitN2(line) ==
    LET n == IndexOf(line, "=")
    IN  IF n = 0 THEN <<line>>
        ELSE <<SubSeq(line, 1, n - 1), SubSeq(line, n + 1, Len(line))>>

\* strings.Split(value, ","): every part between two commas, empty ones too
RECURSIVE Split(_)
Split(value) ==
    LET n == IndexOf(value, ",")
    IN  IF n = 0 THEN <<value>>
        ELSE <<SubSeq(value, 1, n - 1)>> \o Split(SubSeq(value, n + 1, Len(value)))

\* ------------------------------------------------------------------------
\* strconv.ParseInt / ParseUint / ParseBool / ParseFloat / ParseComplex and
\* time.ParseDuration, on the characters the model's values are made of:
\* digits, sign, ",", letters and the unit "s".  Results are
\* [ok |-> BOOLEAN, v |-> value].
\* ------------------------------------------------------------------------

Digits == {"0", "1", "2", "3", "4", "5", "6", "7", "8", "9"}

DigitVal(c) ==
    CASE c = "0" -> 0 [] c = "1" -> 1 [] c = "2" -> 2 [] c = "3" -> 3
      [] c = "4" -> 4 [] c = "5" -> 5 [] c = "6" -> 6 [] c = "7" -> 7
      [] c = "8" -> 8 [] c = "9" -> 9

AllDigits(s) == Len(s) > 0 /\ \A n \in 1..Len(s) : s[n] \in Digits

RECURSIVE DecVal(_)
DecVal(s) ==
    IF s = <<>> THEN 0
    ELSE 10 * DecVal(SubSeq(s, 1, Len(s) - 1)) + DigitVal(s[Len(s)])

\* strconv.ParseUint(value, 10, 64): digits only, no sign
ParseUint(s) ==
    IF AllDigits(s) THEN [ok |-> TRUE, v |-> DecVal(s)]
    ELSE [ok |-> FALSE, v |-> 0]

\* strconv.ParseInt(value, 10, 64): an optional sign, then digits
ParseInt(s) ==
    IF s # <<>> /\ Head(s) \in {"+", "-"}
    THEN LET u == ParseUint(Tail(s))
         IN  IF ~u.ok THEN u
             ELSE [ok |-> TRUE, v |-> IF Head(s) = "-" THEN 0 - u.v ELSE u.v]
    ELSE ParseUint(s)

\* strconv.ParseBool: the twelve accepted literals
BoolTrue == {<<"1">>, <<"t">>, <<"T">>, <<"T", "R", "U", "E">>,
             <<"t", "r", "u", "e">>, <<"T", "r", "u", "e">>}

BoolFalse == {<<"0">>, <<"f">>, <<"F">>, <<"F", "A", "L", "S", "E">>,
              <<"f", "a", "l", "s", "e">>, <<"F", "a", "l", "s", "e">>}

ParseBool(s) ==
    IF s \in BoolTrue THEN [ok |-> TRUE, v |-> TRUE]
    ELSE IF s \in BoolFalse THEN [ok |-> TRUE, v |-> FALSE]
    ELSE [ok |-> FALSE, v |-> FALSE]

\* strconv.ParseFloat(value, 64) on signed digit strings (the model's values
\* hold no ".", exponent, "inf" or "nan"): the number itself
ParseFloat(s) == ParseInt(s)

\* strconv.ParseComplex(value, 128) on the same strings: a real literal gives
\* real part and imaginary part 0; there is no "i" among the characters
ParseComplex(s) ==
    LET f == ParseFloat(s)
    IN  [ok |-> f.ok, v |-> <<f.v, 0>>]

\* time.ParseDuration on [sign] (digits "s")+ and "0"; the value is kept in
\* seconds.  A number without unit is an error, as in Go.
RECURSIVE DurGroups(_)
DurGroups(s) ==
    IF s = <<>> THEN [ok |-> TRUE, v |-> 0]
    ELSE LET n == IndexOf(s, "s")
         IN  IF n < 2 \/ ~AllDigits(SubSeq(s, 1, n - 1))
             THEN [ok |-> FALSE, v |-> 0]
             ELSE LET rest == DurGroups(SubSeq(s, n + 1, Len(s)))
                  IN  IF ~rest.ok THEN rest
                      ELSE [ok |-> TRUE, v |-> DecVal(SubSeq(s, 1, n - 1)) + rest.v]

ParseDuration(s) ==
    LET neg  == s # <<>> /\ Head(s) = "-"
        body == IF s # <<>> /\ Head(s) \in {"+", "-"} THEN Tail(s) ELSE s
    IN  IF body = <<"0">> THEN [ok |-> TRUE, v |-> 0]
        ELSE IF body = <<>> THEN [ok |-> FALSE, v |-> 0]
        ELSE LET g == DurGroups(body)
             IN  IF ~g.ok THEN g
                 ELSE [ok |-> TRUE, v |-> IF neg THEN 0 - g.v ELSE g.v]

\* ------------------------------------------------------------------------
\* convert (covert.go).  A field of the target record is
\*   [name, kind, typ, tag, exported, val]
\* with kind the reflect.Kind, typ the Go type, tag the `env` tag, exported
\* what field.CanSet() answers for an addressable struct, val the value.
\* ------------------------------------------------------------------------

IntKinds == {"int", "int8", "int16", "int32", "int64"}

UintKinds == {"uint", "uint8", "uint16", "uint32", "uint64"}

\* reflect.Value.SetInt stores int8(x), int16(x), ...: the low bits of x.
\* Widths 32 and 64 are beyond the numbers of the model and store x itself.
SetInt(kind, x) ==
    CASE kind = "int8"  -> ((x + 128) % 256) - 128
      [] kind = "int16" -> ((x + 32768) % 65536) - 32768
      [] OTHER -> x

\* reflect.Value.SetUint stores uint8(x), uint16(x), ...
SetUint(kind, x) ==
    CASE kind = "uint8"  -> x % 256
      [] kind = "uint16" -> x % 65536
      [] OTHER -> x

\* reflect.Value.Set(x) panics unless x's type is assignable to the field's
AssignableFromStringSlice(typ) == typ = "[]string"

Assigned(field, v) == [res |-> "nil", field |-> [field EXCEPT !.val = v]]

ConvErr(field) == [res |-> "err", field |-> field]

ConvPanic(field) == [res |-> "panic", field |-> field]

convert(value, field) ==
    CASE field.kind = "string" -> Assigned(field, value)
      [] field.kind \in IntKinds ->
            IF field.typ = "time.Duration"
            THEN LET d == ParseDuration(value)
                 IN  IF ~d.ok THEN ConvErr(field) ELSE Assigned(field, d.v)
            ELSE LET n == ParseInt(value)
                 IN  IF ~n.ok THEN ConvErr(field)
                     ELSE Assigned(field, SetInt(field.kind, n.v))
      [] field.kind \in UintKinds ->
            LET n == ParseUint(value)
            IN  IF ~n.ok THEN ConvErr(field)
                ELSE Assigned(field, SetUint(field.kind, n.v))
      [] field.kind = "bool" ->
            LET b == ParseBool(value)
            IN  IF ~b.ok THEN ConvErr(field) ELSE Assigned(field, b.v)
      [] field.kind \in {"float32", "float64"} ->
            LET f == ParseFloat(value)
            IN  IF ~f.ok THEN ConvErr(field) ELSE Assigned(field, f.v)
      [] field.kind \in {"complex64", "complex128"} ->
            LET c == ParseComplex(value)
            IN  IF ~c.ok THEN ConvErr(field) ELSE Assigned(field, c.v)
      [] field.kind = "slice" ->
            IF AssignableFromStringSlice(field.typ)
            THEN Assigned(field, Split(value))
            ELSE ConvPanic(field)
      [] OTHER -> ConvErr(field)

\* ------------------------------------------------------------------------
\* The inputs: file system, process environment, targets, path lists
\* ------------------------------------------------------------------------

kA == <<"A">>

kB == <<"B">>

kT == <<"T">>

\* The .env file of each directory: exists (os.Stat), readable (os.Open),
\* its lines, and whether the scanner ends with an error (scanner.Err()).
FS ==
    [d \in {"cwd", "d1", "d2", "d3", "inv", "scn", "bad", "none"} |->
       CASE d = "cwd" ->
              [exists |-> TRUE, readable |-> TRUE, scanErr |-> FALSE,
               lines |-> << <<"#", " ", "c">>,
                            <<" ", "A", " ", "=", " ">>,
                            <<"B", "=", "1", ",", "2">> >>]
         [] d = "d1" ->
              [exists |-> TRUE, readable |-> TRUE, scanErr |-> FALSE,
               lines |-> << <<"A", "=", "1">>,
                            <<"B", "=", "3", "0", "0">> >>]
         [] d = "d2" ->
              [exists |-> TRUE, readable |-> TRUE, scanErr |-> FALSE,
               lines |-> << <<"A", "=", "x">>,
                            <<"n", "o">> >>]
         [] d = "d3" ->
              [exists |-> TRUE, readable |-> TRUE, scanErr |-> FALSE,
               lines |-> << <<>>,
                            <<"B", " ", "=", "3", "0", "0">> >>]
         [] d = "inv" ->
              [exists |-> TRUE, readable |-> TRUE, scanErr |-> FALSE,
               lines |-> << <<"A", "=", "1">>,
                            <<"=", "v">>,
                            <<"T", "=", "5", "s">> >>]
         [] d = "scn" ->
              [exists |-> TRUE, readable |-> TRUE, scanErr |-> TRUE,
               lines |-> << <<"B", "=", "3", "0", "0">> >>]
         [] d = "bad" ->
              [exists |-> TRUE, readable |-> FALSE, scanErr |-> FALSE,
               lines |-> <<>>]
         [] d = "none" ->
              [exists |-> FALSE, readable |-> FALSE, scanErr |-> FALSE,
               lines |-> <<>>]]

\* the directories a caller passes, in the order the model lists them
DirOrder == <<"d1", "d2", "d3", "inv", "scn", "bad", "none">>

Rank(d) == CHOOSE n \in 1..Len(DirOrder) : DirOrder[n] = d

Dirs == {DirOrder[n] : n \in 1..Len(DirOrder)}

\* path lists: up to MaxPaths distinct directories, and one long list of
\* BurstPaths times the directory whose file cannot be opened
PathInputs ==
    UNION {{p \in [1..n -> Dirs] :
               \A a, b \in 1..n : a < b => Rank(p[a]) < Rank(p[b])} :
           n \in 0..MaxPaths}
    \cup {[n \in 1..BurstPaths |-> "bad"]}

\* the process environment before the first call
EnvInputs == {<<>>, (kA :> <<"t">>) @@ (kT :> <<"3", "0", "s">>)}

Field(name, kind, typ, tag, exported, val) ==
    [name |-> name, kind |-> kind, typ |-> typ, tag |-> tag,
     exported |-> exported, val |-> val]

\* type Config struct { ... } with every field at its zero value
ConfigZero ==
    << Field("S", "string", "string", kA, TRUE, <<>>),
       Field("N", "int8", "int8", kB, TRUE, 0),
       Field("I", "int", "int", kA, TRUE, 0),
       Field("U", "uint8", "uint8", kB, TRUE, 0),
       Field("D", "bool", "bool", kA, TRUE, FALSE),
       Field("T", "int64", "time.Duration", kT, TRUE, 0),
       Field("L", "slice", "[]string", kB, TRUE, <<>>),
       Field("F", "float64", "float64", kA, TRUE, 0),
       Field("C", "complex128", "complex128", kA, TRUE, <<0, 0>>),
       Field("M", "map", "map[string]string", kA, TRUE, 0),
       Field("priv", "string", "string", kA, FALSE, <<>>),
       Field("Plain", "string", "string", <<>>, TRUE, <<>>) >>

\* the same record with every field set by the caller before Bind
ConfigPreset ==
    << Field("S", "string", "string", kA, TRUE, <<"o">>),
       Field("N", "int8", "int8", kB, TRUE, 7),
       Field("I", "int", "int", kA, TRUE, 7),
       Field("U", "uint8", "uint8", kB, TRUE, 7),
       Field("D", "bool", "bool", kA, TRUE, TRUE),
       Field("T", "int64", "time.Duration", kT, TRUE, 9),
       Field("L", "slice", "[]string", kB, TRUE, << <<"z">> >>),
       Field("F", "float64", "float64", kA, TRUE, 7),
       Field("C", "complex128", "complex128", kA, TRUE, <<7, 0>>),
       Field("M", "map", "map[string]string", kA, TRUE, 1),
       Field("priv", "string", "string", kA, FALSE, <<"p">>),
       Field("Plain", "string", "string", <<>>, TRUE, <<"q">>) >>

\* type Ports struct { ... } with a slice field that is not a []string
PortsZero ==
    << Field("S", "string", "string", kA, TRUE, <<>>),
       Field("P", "slice", "[]int", kB, TRUE, <<>>),
       Field("N", "int8", "int8", kB, TRUE, 0) >>

\* The first argument of Bind: kind is reflect.TypeOf(i).Kind() ("nil" when
\* i is the nil interface and TypeOf answers nil), elem is
\* reflect.ValueOf(i).Elem().Kind() for a pointer.
ValidTargets ==
    {[kind |-> "ptr", elem |-> "struct", fields |-> f] :
        f \in {ConfigZero, ConfigPreset, PortsZero}}

InvalidTargets ==
    {[kind |-> "nil", elem |-> "none", fields |-> <<>>],
     [kind |-> "struct", elem |-> "none", fields |-> ConfigZero],
     [kind |-> "ptr", elem |-> "int", fields |-> <<>>],
     [kind |-> "ptr", elem |-> "invalid", fields |-> <<>>],
     [kind |-> "int", elem |-> "none", fields |-> <<>>]}

TargetInputs == ValidTargets \cup InvalidTargets

\* ------------------------------------------------------------------------
\* State
\* ------------------------------------------------------------------------

VARIABLES
    target,      \* i: what the caller's first argument points to
    rPath,       \* the caller's path list
    env,         \* the process environment: a function on the set variables
    calls,       \* number of Bind calls started
    bindPc,      \* where Bind is
    idx,         \* paths launched so far / field under binding
    loadedVars,  \* keys k with loadedVars[k] = true
    wg,          \* counter of the sync.WaitGroup
    Ce,          \* content of the error channel
    closed,      \* close(Ce) has happened
    errors,      \* the errors Bind has collected
    ret,         \* what Bind returned, or how it ended
    loaders,     \* the running load goroutines: a bag of their local states
    env0,        \* history: env when the current call started
    target0,     \* history: the target's fields when the current call started
    writes,      \* history: per key, the values os.Setenv wrote in this call
    results,     \* history: the target's fields at each return of Bind
    launched,    \* history: the directories of the loaders the call launched
    expEnv,      \* expandVariables: the environment it reads
    expValue,    \* expandVariables: its argument value
    expanded,    \* expandVariables: expandedValue
    expPc        \* expandVariables: where it is

\* the variables of expandVariables
xvars == <<expEnv, expValue, expanded, expPc>>

vars == <<target, rPath, env, calls, bindPc, idx, loadedVars, wg, Ce, closed,
          errors, ret, loaders, env0, target0, writes, results, launched,
          expEnv, expValue, expanded, expPc>>

\* error values
Err(op, path, key) == [op |-> op, path |-> path, key |-> key]

NoErr == Err("nil", "", <<>>)

Pending == Err("pending", "", <<>>)

\* os.Getenv: the value, or "" when the variable is not set
Getenv(e, k) == IF k \in DOMAIN e THEN e[k] ELSE <<>>

\* os.Setenv fails (EINVAL) on an empty key; a trimmed key of a line split
\* at the first "=" holds no "="
SetenvFails(k) == k = <<>>

\* a Setenv that appends to the value the variable already has
SetenvAppends(e, k, v) ==
    [x \in (DOMAIN e) \cup {k} |->
        IF x = k THEN (IF k \in DOMAIN e THEN e[k] \o v ELSE v) ELSE e[x]]

Setenv(e, k, v) == [x \in (DOMAIN e) \cup {k} |-> IF x = k THEN v ELSE e[x]]

Logged(w, k, v) ==
    [x \in (DOMAIN w) \cup {k} |->
        IF x = k THEN (IF k \in DOMAIN w THEN Append(w[k], v) ELSE <<v>>)
        ELSE w[x]]

Init ==
    /\ target \in TargetInputs
    /\ rPath \in PathInputs
    /\ env \in EnvInputs
    /\ calls = 0
    /\ bindPc = "idle"
    /\ idx = 0
    /\ loadedVars = {}
    /\ wg = 0
    /\ Ce = <<>>
    /\ closed = FALSE
    /\ errors = <<>>
    /\ ret = Pending
    /\ loaders = EmptyBag
    /\ env0 = env
    /\ target0 = target.fields
    /\ writes = <<>>
    /\ results = <<>>
    /\ launched = <<>>
    /\ expEnv = <<>>
    /\ expValue = <<>>
    /\ expanded = <<>>
    /\ expPc = "off"

\* ------------------------------------------------------------------------
\* load (load.go).  The local state of one goroutine is
\*   [path, pc, ln, err]: its directory, its position, the number of the
\*   line it works on, the error it is about to send.
\* ------------------------------------------------------------------------

NewLoader(d) == [path |-> d, pc |-> "start", ln |-> 0, err |-> NoErr]

\* lines 37-51: the trimmed line, and key and value of a KEY=VALUE line
Line(s) == TrimSpace(FS[s.path].lines[s.ln])

IsPair(line) ==
    /\ ~(Len(line) = 0 \/ HasPrefix(line, "#"))
    /\ Len(SplitN2(line)) = 2

KeyOf(line) == TrimSpace(SplitN2(line)[1])

ValueOf(line) == TrimSpace(SplitN2(line)[2])

\* lines 36-48 and 65-69: scan on to the next KEY=VALUE line; at the end of
\* the file leave the loop and look at scanner.Err()
Advance(s) ==
    LET f    == FS[s.path]
        next == {n \in (s.ln + 1)..Len(f.lines) : IsPair(TrimSpace(f.lines[n]))}
    IN  IF next # {}
        THEN [s EXCEPT !.pc = "check",
                       !.ln = CHOOSE n \in next : \A m \in next : n <= m]
        ELSE IF f.scanErr
        THEN [s EXCEPT !.pc = "send", !.ln = Len(f.lines),
                       !.err = Err("read", s.path, <<>>)]
        ELSE [s EXCEPT !.pc = "ret", !.ln = Len(f.lines)]

Running == bindPc \notin {"panic", "fatal"}

Step(s, t) == loaders' = (loaders (-) SetToBag({s})) (+) SetToBag({t})

\* a loader that reports a missing file on the error channel
LoadOpenStrict(s) ==
    /\ Running
    /\ s.pc = "start"
    /\ Step(s, IF ~FS[s.path].exists
               THEN [s EXCEPT !.pc = "send", !.err = Err("not found", s.path, <<>>)]
               ELSE IF ~FS[s.path].readable
               THEN [s EXCEPT !.pc = "send", !.err = Err("open", s.path, <<>>)]
               ELSE Advance(s))
    /\ UNCHANGED <<target, rPath, env, calls, bindPc, idx, loadedVars, wg, Ce,
                   closed, errors, ret, env0, target0, writes, results>>
    /\ UNCHANGED <<launched, xvars>>

\* lines 19-32: os.Stat and os.Open
LoadOpen(s) ==
    /\ Running
    /\ s.pc = "start"
    /\ Step(s, IF ~FS[s.path].exists THEN [s EXCEPT !.pc = "ret"]
               ELSE IF ~FS[s.path].readable
               THEN [s EXCEPT !.pc = "send", !.err = Err("open", s.path, <<>>)]
               ELSE Advance(s))
    /\ UNCHANGED <<target, rPath, env, calls, bindPc, idx, loadedVars, wg, Ce,
                   closed, errors, ret, env0, target0, writes, results>>
    /\ UNCHANGED <<launched, xvars>>

\* a loader that also skips a key the environment already has a value for
LoadCheckEnv(s) ==
    /\ Running
    /\ s.pc = "check"
    /\ Step(s, IF /\ KeyOf(Line(s)) \notin loadedVars
                  /\ Getenv(env, KeyOf(Line(s))) = <<>>
               THEN [s EXCEPT !.pc = "setenv"]
               ELSE Advance(s))
    /\ UNCHANGED <<target, rPath, env, calls, bindPc, idx, loadedVars, wg, Ce,
                   closed, errors, ret, env0, target0, writes, results>>
    /\ UNCHANGED <<launched, xvars>>

\* line 54: if !loadedVars[key]
LoadCheck(s) ==
    /\ Running
    /\ s.pc = "check"
    /\ Step(s, IF KeyOf(Line(s)) \notin loadedVars
               THEN [s EXCEPT !.pc = "setenv"]
               ELSE Advance(s))
    /\ UNCHANGED <<target, rPath, env, calls, bindPc, idx, loadedVars, wg, Ce,
                   closed, errors, ret, env0, target0, writes, results>>
    /\ UNCHANGED <<launched, xvars>>

\* a loader that goes on with the next line after a failed os.Setenv
LoadSetenvContinues(s) ==
    /\ Running
    /\ s.pc = "setenv"
    /\ LET k == KeyOf(Line(s))
           v == ValueOf(Line(s))
       IN  IF SetenvFails(k)
           THEN /\ Step(s, Advance(s))
                /\ UNCHANGED <<env, writes>>
           ELSE /\ env' = Setenv(env, k, v)
                /\ writes' = Logged(writes, k, v)
                /\ Step(s, [s EXCEPT !.pc = "mark"])
    /\ UNCHANGED <<target, rPath, calls, bindPc, idx, loadedVars, wg, Ce,
                   closed, errors, ret, env0, target0, results>>
    /\ UNCHANGED <<launched, xvars>>

\* lines 56-60: os.Setenv(key, value)
LoadSetenv(s) ==
    /\ Running
    /\ s.pc = "setenv"
    /\ LET k == KeyOf(Line(s))
           v == ValueOf(Line(s))
       IN  IF SetenvFails(k)
           THEN /\ Step(s, [s EXCEPT !.pc = "send", !.err = Err("setenv", "", k)])
                /\ UNCHANGED <<env, writes>>
           ELSE /\ env' = Setenv(env, k, v)
                /\ writes' = Logged(writes, k, v)
                /\ Step(s, [s EXCEPT !.pc = "mark"])
    /\ UNCHANGED <<target, rPath, calls, bindPc, idx, loadedVars, wg, Ce,
                   closed, errors, ret, env0, target0, results>>
    /\ UNCHANGED <<launched, xvars>>

\* line 61: loadedVars[key] = true
LoadMark(s) ==
    /\ Running
    /\ s.pc = "mark"
    /\ loadedVars' = loadedVars \cup {KeyOf(Line(s))}
    /\ Step(s, Advance(s))
    /\ UNCHANGED <<target, rPath, env, calls, bindPc, idx, wg, Ce, closed,
                   errors, ret, env0, target0, writes, results>>
    /\ UNCHANGED <<launched, xvars>>

\* lines 29, 58, 67: ce <- err.  The send blocks while the buffer is full;
\* a send on a closed channel panics.
LoadSend(s) ==
    /\ Running
    /\ s.pc = "send"
    /\ IF closed
       THEN /\ bindPc' = "panic"
            /\ ret' = Err("panic", "send on closed channel", <<>>)
            /\ UNCHANGED <<Ce, loaders>>
       ELSE /\ Len(Ce) < ChanCap
            /\ Ce' = Append(Ce, s.err)
            /\ Step(s, [s EXCEPT !.pc = "ret"])
            /\ UNCHANGED <<bindPc, ret>>
    /\ UNCHANGED <<target, rPath, env, calls, idx, loadedVars, wg, closed,
                   errors, env0, target0, writes, results>>
    /\ UNCHANGED <<launched, xvars>>

\* lines 15-17: the deferred wg.Done() when load returns
LoadDone(s) ==
    /\ Running
    /\ s.pc = "ret"
    /\ wg' = wg - 1
    /\ loaders' = loaders (-) SetToBag({s})
    /\ UNCHANGED <<target, rPath, env, calls, bindPc, idx, loadedVars, Ce,
                   closed, errors, ret, env0, target0, writes, results>>
    /\ UNCHANGED <<launched, xvars>>

\* Two goroutines at the unsynchronised map, one of them writing (lines 54
\* and 61): a data race.  Besides going on as if the accesses were ordered,
\* the Go runtime may stop the process with "fatal error: concurrent map
\* writes" (or "concurrent map read and map write").
MapAccessRace ==
    \E s \in BagToSet(loaders) :
        /\ s.pc = "mark"
        /\ \/ CopiesIn(s, loaders) > 1
           \/ \E t \in BagToSet(loaders) : t # s /\ t.pc \in {"check", "mark"}

MapRaceFatal ==
    /\ Running
    /\ MapAccessRace
    /\ bindPc' = "fatal"
    /\ ret' = Err("fatal", "concurrent map access", <<>>)
    /\ UNCHANGED <<target, rPath, env, calls, idx, loadedVars, wg, Ce, closed,
                   errors, loaders, env0, target0, writes, results>>
    /\ UNCHANGED <<launched, xvars>>

load ==
    \/ \E s \in BagToSet(loaders) : LoadOpen(s)
    \/ \E s \in BagToSet(loaders) : LoadCheck(s)
    \/ \E s \in BagToSet(loaders) : LoadSetenv(s)
    \/ \E s \in BagToSet(loaders) : LoadMark(s)
    \/ \E s \in BagToSet(loaders) : LoadSend(s)
    \/ \E s \in BagToSet(loaders) : LoadDone(s)

\* ------------------------------------------------------------------------
\* Bind (envar.go)
\* ------------------------------------------------------------------------

\* line 17: reflect.TypeOf(i).Kind() != reflect.Ptr ||
\*          reflect.ValueOf(i).Elem().Kind() != reflect.Struct
\* reflect.TypeOf(nil) is the nil Type and calling Kind() on it panics.
TypeOfPanics(i) == i.kind = "nil"

NotPtrToStruct(i) == i.kind # "ptr" \/ i.elem # "struct"

\* a Wait that lets Bind through while one loader is still running
WaitReturnsEarly == wg <= 1

\* line 45: wg.Wait() returns when the counter is zero
WaitReturns == wg = 0

\* a gate that lets a single error pass
HasErrorsOffByOne == Len(errors) > 1

\* line 54: len(errors) > 0
HasErrors == Len(errors) > 0

Returned(e) ==
    /\ ret' = e
    /\ bindPc' = "returned"
    /\ results' = Append(results, target.fields)

\* lines 15-25: the call, the validation of i, the locals of the call
BindEnter ==
    /\ bindPc \in {"idle", "returned"}
    /\ calls < MaxCalls
    /\ calls' = calls + 1
    /\ env0' = env
    /\ target0' = target.fields
    /\ writes' = <<>>
    /\ idx' = 0
    /\ loadedVars' = {}
    /\ wg' = 0
    /\ Ce' = <<>>
    /\ closed' = FALSE
    /\ errors' = <<>>
    /\ launched' = <<>>
    /\ IF TypeOfPanics(target)
       THEN /\ bindPc' = "panic"
            /\ ret' = Err("panic", "validate", <<>>)
            /\ UNCHANGED results
       ELSE IF NotPtrToStruct(target)
       THEN /\ ret' = Err("expected a pointer to a struct", "", <<>>)
            /\ bindPc' = "returned"
            /\ UNCHANGED results
       ELSE /\ bindPc' = "launch"
            /\ ret' = Pending
            /\ UNCHANGED results
    /\ UNCHANGED <<target, rPath, env, loaders>>
    /\ UNCHANGED xvars

\* a Bind that loads the default .env whether or not paths are given
BindLaunchDefaultAlways ==
    /\ bindPc = "launch"
    /\ launched = <<>>
    /\ wg' = wg + 1
    /\ loaders' = loaders (+) SetToBag({NewLoader("cwd")})
    /\ launched' = Append(launched, "cwd")
    /\ bindPc' = IF Len(rPath) = 0 THEN "wait" ELSE "launch"
    /\ UNCHANGED <<target, rPath, env, calls, idx, loadedVars, Ce, closed,
                   errors, ret, env0, target0, writes, results>>
    /\ UNCHANGED xvars

\* lines 28-36: no path given, one loader for the .env of the working
\* directory; the loop of lines 39-42 then runs zero times
BindLaunchDefault ==
    /\ bindPc = "launch"
    /\ Len(rPath) = 0
    /\ wg' = wg + 1
    /\ loaders' = loaders (+) SetToBag({NewLoader("cwd")})
    /\ launched' = Append(launched, "cwd")
    /\ bindPc' = "wait"
    /\ UNCHANGED <<target, rPath, env, calls, idx, loadedVars, Ce, closed,
                   errors, ret, env0, target0, writes, results>>
    /\ UNCHANGED xvars

\* lines 39-42: one loader for the next path
BindLaunch ==
    /\ bindPc = "launch"
    /\ idx < Len(rPath)
    /\ wg' = wg + 1
    /\ loaders' = loaders (+) SetToBag({NewLoader(rPath[idx + 1])})
    /\ launched' = Append(launched, rPath[idx + 1])
    /\ idx' = idx + 1
    /\ bindPc' = IF idx + 1 = Len(rPath) THEN "wait" ELSE "launch"
    /\ UNCHANGED <<target, rPath, env, calls, loadedVars, Ce, closed, errors,
                   ret, env0, target0, writes, results>>
    /\ UNCHANGED xvars

\* line 45: wg.Wait()
BindWait ==
    /\ bindPc = "wait"
    /\ WaitReturns
    /\ bindPc' = "close"
    /\ UNCHANGED <<target, rPath, env, calls, idx, loadedVars, wg, Ce, closed,
                   errors, ret, loaders, env0, target0, writes, results>>
    /\ UNCHANGED <<launched, xvars>>

\* lines 48-51: close(Ce) and the range loop that drains it
BindCollect ==
    /\ bindPc = "close"
    /\ closed' = TRUE
    /\ errors' = errors \o Ce
    /\ Ce' = <<>>
    /\ bindPc' = "gate"
    /\ UNCHANGED <<target, rPath, env, calls, idx, loadedVars, wg, ret,
                   loaders, env0, target0, writes, results>>
    /\ UNCHANGED <<launched, xvars>>

\* lines 54-65: return the last error, or go on to the fields
BindGate ==
    /\ bindPc = "gate"
    /\ IF HasErrors
       THEN /\ Returned(errors[Len(errors)])
            /\ UNCHANGED idx
       ELSE /\ bindPc' = "bind"
            /\ idx' = 1
            /\ UNCHANGED <<ret, results>>
    /\ UNCHANGED <<target, rPath, env, calls, loadedVars, wg, Ce, closed,
                   errors, loaders, env0, target0, writes>>
    /\ UNCHANGED <<launched, xvars>>

\* a loop that resets a field whose variable is not found
BindOneZeroes(field, e) ==
    LET envValue == Getenv(e, field.tag)
    IN  IF envValue # <<>>
        THEN IF field.exported
             THEN convert(envValue, field)
             ELSE [res |-> "unsettable", field |-> field]
        ELSE [res |-> "not found",
              field |-> [field EXCEPT !.val = IF field.kind = "string"
                                               THEN <<>> ELSE field.val]]

\* a loop that converts without asking field.CanSet()
BindOneNoCanSet(field, e) ==
    LET envValue == Getenv(e, field.tag)
    IN  IF envValue # <<>>
        THEN convert(envValue, field)
        ELSE [res |-> "not found", field |-> field]

\* lines 69-85, one turn of the loop: what happens to the field
BindOne(field, e) ==
    LET envValue == Getenv(e, field.tag)
    IN  IF envValue # <<>>
        THEN IF field.exported
             THEN convert(envValue, field)
             ELSE [res |-> "unsettable", field |-> field]
        ELSE [res |-> "not found", field |-> field]

\* a loop that returns the conversion error instead of logging it
BindFieldEscalates ==
    /\ bindPc = "bind"
    /\ idx <= Len(target.fields)
    /\ LET r == BindOne(target.fields[idx], env)
       IN  IF r.res = "panic"
           THEN /\ bindPc' = "panic"
                /\ ret' = Err("panic", "convert", target.fields[idx].tag)
                /\ UNCHANGED <<target, idx, results>>
           ELSE IF r.res = "err"
           THEN /\ Returned(Err("convert", "", target.fields[idx].tag))
                /\ UNCHANGED <<target, idx>>
           ELSE /\ target' = [target EXCEPT !.fields[idx] = r.field]
                /\ idx' = idx + 1
                /\ UNCHANGED <<bindPc, ret, results>>
    /\ UNCHANGED <<rPath, env, calls, loadedVars, wg, Ce, closed, errors,
                   loaders, env0, target0, writes>>
    /\ UNCHANGED <<launched, xvars>>

BindField ==
    /\ bindPc = "bind"
    /\ idx <= Len(target.fields)
    /\ LET r == BindOne(target.fields[idx], env)
       IN  IF r.res = "panic"
           THEN /\ bindPc' = "panic"
                /\ ret' = Err("panic", "convert", target.fields[idx].tag)
                /\ UNCHANGED <<target, idx>>
           ELSE /\ target' = [target EXCEPT !.fields[idx] = r.field]
                /\ idx' = idx + 1
                /\ UNCHANGED <<bindPc, ret>>
    /\ UNCHANGED <<rPath, env, calls, loadedVars, wg, Ce, closed, errors,
                   loaders, env0, target0, writes, results>>
    /\ UNCHANGED <<launched, xvars>>

\* line 88: return nil
BindReturn ==
    /\ bindPc = "bind"
    /\ idx > Len(target.fields)
    /\ Returned(NoErr)
    /\ UNCHANGED <<target, rPath, env, calls, idx, loadedVars, wg, Ce, closed,
                   errors, loaders, env0, target0, writes>>
    /\ UNCHANGED <<launched, xvars>>

Bind ==
    \/ BindEnter
    \/ BindLaunchDefault
    \/ BindLaunch
    \/ BindWait
    \/ BindCollect
    \/ BindGate
    \/ BindField
    \/ BindReturn

Next == Bind \/ load \/ MapRaceFatal

Spec == Init /\ [][Next]_vars

TypeOK ==
    /\ calls \in 0..MaxCalls
    /\ wg \in 0..BurstPaths
    /\ Len(Ce) <= ChanCap
    /\ closed \in BOOLEAN
    /\ BagCardinality(loaders) = wg

\* ------------------------------------------------------------------------
\* Properties
\* ------------------------------------------------------------------------

\* the wait barrier of the current call is behind Bind
PastWait == bindPc \in {"close", "gate", "bind", "returned"} /\ ret.op # "expected a pointer to a struct"

\* some loader of the current call has put an error on the channel
Reported == Len(Ce) > 0 \/ Len(errors) > 0

\* the binding pass would change this field in environment e
Binds(field, e) == BindOne(field, e).field # field

\* C1, first part: within one call, once a key is marked in loadedVars no
\* loader writes that key to the environment again.
NoWriteAfterMark ==
    calls' = calls =>
        \A k \in loadedVars :
            k \in DOMAIN writes => k \in DOMAIN writes' /\ writes'[k] = writes[k]

\* C1, second part: after the loaders of a call, the environment holds for
\* every key the value of the first commit of that call.
FinalIsFirst ==
    PastWait => \A k \in DOMAIN writes : Getenv(env, k) = writes[k][1]

\* C1: first-writer-wins under every interleaving of the loaders: no write
\* of a key after it is marked, so the value left in the environment is the
\* one of the first commit.
C1_FirstWriterWins == [][NoWriteAfterMark]_vars /\ []FinalIsFirst

\* C2: Bind always terminates: while a call is in progress some step of Bind
\* or of a loader is possible; in particular Bind never sits at wg.Wait()
\* with every remaining loader blocked on the full error channel.
C2_BindTerminates ==
    bindPc \in {"launch", "wait", "close", "gate", "bind"} => ENABLED Next

\* C3: the binding pass, and already the closing of the channel and the
\* gate before it, happen only when every loader launched by the call has
\* finished.
C3_WaitBarrier ==
    bindPc \in {"close", "gate", "bind"} => loaders = EmptyBag /\ wg = 0

\* C3 witness: the first field is about to be read after two loaders ran
\* and wrote to the environment.
C3_Witness ==
    /\ bindPc = "bind"
    /\ idx = 1
    /\ Len(rPath) = 2
    /\ DOMAIN writes # {}

\* C4: once a loader has reported an error, no field of the target is
\* modified, the binding pass is not entered, and Bind returns the (last)
\* error, not nil.
C4_AllOrNothing ==
    Reported =>
        /\ target.fields = target0
        /\ bindPc # "bind"
        /\ bindPc = "returned" => ret # NoErr /\ ret = errors[Len(errors)]

\* C4 witness: Bind returned an error although another loader committed a
\* value that the binding pass would have put into a field.
C4_Witness ==
    /\ bindPc = "returned"
    /\ Len(errors) > 0
    /\ DOMAIN writes # {}
    /\ \E n \in 1..Len(target.fields) : Binds(target.fields[n], env)

\* C5: for a target that is not a pointer to a struct (nil included) Bind
\* returns an error without panicking, launches no loader and leaves the
\* environment alone.
C5_InvalidTargetRejected ==
    target \in InvalidTargets =>
        /\ bindPc # "panic"
        /\ loaders = EmptyBag
        /\ env = env0
        /\ bindPc = "returned" => ret.op = "expected a pointer to a struct"

\* the record the binding pass makes of fields in environment e
BindAll(fields, e) == [n \in 1..Len(fields) |-> BindOne(fields[n], e).field]

\* C6: after a Bind that returned nil, every exported field with a non-empty
\* tag whose variable is set holds the conversion of the variable's value;
\* a string field equals the value of the variable.
C6_BoundAfterNil ==
    (bindPc = "returned" /\ ret = NoErr) =>
        \A n \in 1..Len(target.fields) :
            LET f == target.fields[n]
            IN  (f.exported /\ f.tag # <<>> /\ f.tag \in DOMAIN env) =>
                    /\ f.kind = "string" => f.val = env[f.tag]
                    /\ convert(env[f.tag], target0[n]).res = "nil" =>
                           f = convert(env[f.tag], target0[n]).field

\* the first definition of every key in the .env file of directory d
PairLines(d) == {n \in 1..Len(FS[d].lines) : IsPair(TrimSpace(FS[d].lines[n]))}

FirstDefs(d) ==
    {<<KeyOf(TrimSpace(FS[d].lines[n])), ValueOf(TrimSpace(FS[d].lines[n]))>> :
        n \in {m \in PairLines(d) :
                  \A l \in PairLines(d) :
                      l < m => KeyOf(TrimSpace(FS[d].lines[l]))
                               # KeyOf(TrimSpace(FS[d].lines[m]))}}

\* no key is given different values by the files of two of the paths
NoConflict(paths) ==
    \A a, b \in 1..Len(paths) :
        \A x \in FirstDefs(paths[a]), y \in FirstDefs(paths[b]) :
            x[1] = y[1] => x[2] = y[2]

\* two of the paths define the same key
SharedKey(paths) ==
    \E a, b \in 1..Len(paths) :
        /\ a < b
        /\ \E x \in FirstDefs(paths[a]), y \in FirstDefs(paths[b]) : x[1] = y[1]

\* C7 as stated: two successive calls with the same inputs leave the same
\* field values, also when two of the paths define the same key.
C7_Idempotent == Len(results) = 2 => results[2] = results[1]

\* C7 amended: two successive calls with the same inputs leave the same
\* field values when no two of the paths' files give a key different
\* values.
C7_IdempotentNoConflict ==
    (Len(results) = 2 /\ NoConflict(rPath)) => results[2] = results[1]

\* C7 witness: the second call returned nil for two paths that define the
\* same key with the same value, and fields were bound.
C7_Witness ==
    /\ Len(results) = 2
    /\ ret = NoErr
    /\ NoConflict(rPath)
    /\ SharedKey(rPath)
    /\ results[2] \notin {ConfigZero, ConfigPreset, PortsZero}

\* C8: a loader whose file does not exist only returns: it is never at the
\* map, at os.Setenv or at the channel, and carries no error.  If no loader
\* reported an error, Bind runs the binding pass against the environment as
\* it is and returns nil.
C8_MissingFileNonFatal ==
    /\ \A s \in BagToSet(loaders) :
           ~FS[s.path].exists => s.pc \in {"start", "ret"} /\ s.err = NoErr
    /\ (\A n \in 1..Len(rPath) : ~FS[rPath[n]].exists) /\ Len(rPath) > 0 =>
           /\ env = env0
           /\ loadedVars = {}
           /\ ~Reported
    /\ (bindPc = "returned" /\ target \in ValidTargets /\ ~Reported
                            /\ \E n \in 1..Len(rPath) : ~FS[rPath[n]].exists) =>
           /\ ret = NoErr
           /\ target.fields = BindAll(target0, env)

\* C8 witness: Bind of the single path without a file returned nil and the
\* binding pass changed a field from the environment that was there before.
C8_Witness ==
    /\ bindPc = "returned"
    /\ rPath = <<"none">>
    /\ ret = NoErr
    /\ target.fields # target0

\* the conversion of field n of the call's record fails with an error
ConvFails(n) == BindOne(target0[n], env).res = "err"

\* C9: a field whose conversion fails keeps the value it had before the
\* call, the fields after it are still processed and bound, and Bind
\* returns nil.
C9_FieldErrorsNeverEscalate ==
    \A n \in 1..Len(target0) :
        ConvFails(n) =>
            /\ target.fields[n] = target0[n]
            /\ (bindPc = "bind" /\ idx > n) =>
                   \A m \in (n + 1)..(idx - 1) :
                       target.fields[m] = BindOne(target0[m], env).field
            /\ (bindPc = "returned" /\ target \in ValidTargets /\ ~Reported) =>
                   /\ ret = NoErr
                   /\ \A m \in (n + 1)..Len(target0) :
                          target.fields[m] = BindOne(target0[m], env).field

\* C9 witness: Bind returned nil, a conversion failed and a later field was
\* bound.
C9_Witness ==
    /\ bindPc = "returned"
    /\ ret = NoErr
    /\ \E n \in 1..Len(target0) :
           /\ ConvFails(n)
           /\ \E m \in (n + 1)..Len(target0) : target.fields[m] # target0[m]

\* C10: convert never panics: on every call Bind makes (a settable field of
\* any kind, a non-empty value) it either assigns a value and returns nil,
\* or returns an error and leaves the field as it was, whatever the element
\* type of a slice field.
C10_ConvertTotal ==
    (bindPc = "bind" /\ idx <= Len(target.fields)) =>
        LET f == target.fields[idx]
            v == Getenv(env, f.tag)
        IN  (v # <<>> /\ f.exported) =>
                /\ convert(v, f).res \in {"nil", "err"}
                /\ convert(v, f).res = "err" => convert(v, f).field = f

\* C11: a tagged field whose variable is absent from the environment keeps
\* exactly the value it had before the call, and Bind returns an error only
\* when the target is invalid or a loader reported one.
C11_UnsetVariableKeepsField ==
    /\ \A n \in 1..Len(target.fields) :
           (target.fields[n].tag # <<>> /\ target.fields[n].tag \notin DOMAIN env)
               => target.fields[n] = target0[n]
    /\ (bindPc = "returned" /\ target \in ValidTargets /\ ~Reported) => ret = NoErr

\* C11 witness: Bind returned nil; a field set by the caller has a tag whose
\* variable is absent, while another field was bound.
C11_Witness ==
    /\ bindPc = "returned"
    /\ ret = NoErr
    /\ target0 = ConfigPreset
    /\ target.fields # target0
    /\ \E n \in 1..Len(target.fields) :
           target.fields[n].tag # <<>> /\ target.fields[n].tag \notin DOMAIN env

\* C12: every field that is unexported or has no env tag has the value it
\* had when the call started, whatever the environment holds.
C12_FrameOfBinding ==
    \A n \in 1..Len(target.fields) :
        (~target.fields[n].exported \/ target.fields[n].tag = <<>>)
            => target.fields[n] = target0[n]

\* C12 witness: Bind returned nil and bound fields, with an unexported field
\* whose variable is set to a value other than the field's.
C12_Witness ==
    /\ bindPc = "returned"
    /\ ret = NoErr
    /\ target.fields # target0
    /\ \E n \in 1..Len(target.fields) :
           /\ ~target.fields[n].exported
           /\ Getenv(env, target.fields[n].tag) # <<>>
           /\ Getenv(env, target.fields[n].tag) # target.fields[n].val

\* the launch loop of the current call is over
PastLaunch == bindPc \in {"wait", "close", "gate", "bind"} \/ (bindPc = "returned" /\ target \in ValidTargets)

\* C13: with no path argument Bind launches exactly one loader, for the .env
\* of the working directory; with n >= 1 paths exactly n loaders, one per
\* path in turn, and none for the working directory.
C13_PathSelection ==
    /\ PastLaunch => launched = IF Len(rPath) = 0 THEN <<"cwd">> ELSE rPath
    /\ target \in InvalidTargets => launched = <<>>
    /\ Len(launched) <= Len(rPath) \/ launched = <<"cwd">>

\* C13 witness: two paths were given and two loaders launched, none of them
\* for the working directory.
C13_Witness ==
    /\ bindPc = "wait"
    /\ Len(rPath) = 2
    /\ launched = rPath
    /\ wg = 2

\* the KEY=VALUE lines of directory d's file that a loader reaches: all of
\* them up to the first whose os.Setenv fails, none when the file cannot be
\* opened
CommitLines(d) ==
    IF ~(FS[d].exists /\ FS[d].readable) THEN {}
    ELSE {n \in PairLines(d) :
             \A m \in PairLines(d) :
                 m <= n => ~SetenvFails(KeyOf(TrimSpace(FS[d].lines[m])))}

CommitKeys(d) == {KeyOf(TrimSpace(FS[d].lines[n])) : n \in CommitLines(d)}

\* the values the files of the launched loaders give key k
FileValues(k) ==
    UNION {{ValueOf(TrimSpace(FS[launched[a]].lines[n])) :
               n \in {m \in CommitLines(launched[a]) :
                         KeyOf(TrimSpace(FS[launched[a]].lines[m])) = k}} :
           a \in 1..Len(launched)}

\* the launched loaders whose file defines key k
Definers(k) == {a \in 1..Len(launched) : k \in CommitKeys(launched[a])}

\* C14: the loaded set is empty when a call starts launching, and after the
\* wait barrier every key a launched file defines was written in this call
\* and holds a file value, whatever the environment held before the call.
C14_PreexistingValueReplaced ==
    /\ (bindPc = "launch" /\ launched = <<>>) => loadedVars = {}
    /\ PastWait =>
           \A a \in 1..Len(launched) :
               \A k \in CommitKeys(launched[a]) :
                   /\ k \in DOMAIN writes
                   /\ k \in DOMAIN env
                   /\ env[k] \in FileValues(k)

\* C14 witness: after the wait barrier a key that had a value before the
\* call holds another one, written by a loader of this call.
C14_Witness ==
    /\ PastWait
    /\ \E k \in DOMAIN env0 :
           /\ k \in DOMAIN writes
           /\ k \in DOMAIN env
           /\ env[k] # env0[k]
           /\ env[k] \in FileValues(k)

\* C15: after the wait barrier a key that two launched files define is set
\* in the environment to exactly one of the values the files give it.
C15_NoMix ==
    PastWait =>
        \A k \in DOMAIN writes :
            Cardinality(Definers(k)) >= 2 =>
                /\ k \in DOMAIN env
                /\ env[k] \in FileValues(k)

\* C15 witness: after the wait barrier two files gave one key different
\* values and both loaders wrote theirs.
C15_Witness ==
    /\ PastWait
    /\ \E k \in DOMAIN writes :
           /\ Cardinality(Definers(k)) = 2
           /\ Cardinality(FileValues(k)) = 2
           /\ Len(writes[k]) = 2
           /\ writes[k][1] # writes[k][2]

\* C16: no two loaders are at once between a successful check of a key and
\* the marking of that key, and no two loaders are at the loaded set at once
\* with one of them writing.
C16_AtomicCheckAndSet ==
    /\ ~MapAccessRace
    /\ \A s \in BagToSet(loaders) :
           s.pc \in {"setenv", "mark"} =>
               /\ CopiesIn(s, loaders) = 1
               /\ \A t \in BagToSet(loaders) :
                      (t # s /\ t.pc \in {"setenv", "mark"})
                          => KeyOf(Line(t)) # KeyOf(Line(s))

\* C17: a loader with an error to report has left its loop and no key
\* behind the failing line of a file is written, while after the wait
\* barrier every key of every launched file up to its failure is in the
\* loaded set, also when another loader reported an error.
C17_ErrorIsolation ==
    /\ \A s \in BagToSet(loaders) : s.err # NoErr => s.pc \in {"send", "ret"}
    /\ \A k \in DOMAIN writes : Definers(k) # {}
    /\ PastWait =>
           \A a \in 1..Len(launched) : CommitKeys(launched[a]) \subseteq loadedVars

\* C17 witness: after the wait barrier one loader has reported an error and
\* the other loader's file is loaded to its last line.
C17_Witness ==
    /\ PastWait
    /\ Reported
    /\ launched = <<"d1", "inv">>
    /\ kB \in loadedVars
    /\ kT \notin DOMAIN writes

\* ------------------------------------------------------------------------
\* expandVariables (the load with expansion, unnamed/part_001)
\* ------------------------------------------------------------------------

\* the longest value is MaxToks pieces long
MaxToks == 3

\* the model follows a value until it has grown by more than MaxGrow
MaxGrow == 3

Placeholder(name) == <<"$", "{">> \o name \o <<"}">>

\* the pieces values are put together from; the variable C is never set
kC == <<"C">>

Toks == {Placeholder(kA), Placeholder(kB), Placeholder(kC), <<"/">>, <<"x">>}

RECURSIVE ValuesOf(_)
ValuesOf(n) ==
    IF n = 0 THEN {<<>>}
    ELSE ValuesOf(n - 1) \cup {v \o t : v \in ValuesOf(n - 1), t \in Toks}

ExpValueInputs == ValuesOf(MaxToks)

\* the environments expandVariables reads
ExpEnvInputs ==
    { <<>>,
      (kA :> <<"x">>) @@ (kB :> <<"y">>),
      (kA :> <<"x">>),
      (kA :> <<>>) @@ (kB :> <<"y">>),
      (kA :> Placeholder(kB)) @@ (kB :> <<"y">>),
      (kA :> Placeholder(kB)) @@ (kB :> Placeholder(kA)),
      (kA :> Placeholder(kA) \o <<"x">>) }

\* line 82, \${([^}]+)}: the length of the match that starts at the first
\* character of s, 0 when there is none
MatchLen(s) ==
    IF /\ Len(s) >= 4
       /\ s[1] = "$"
       /\ s[2] = "{"
       /\ s[3] # "}"
       /\ \E j \in 4..Len(s) : s[j] = "}"
    THEN CHOOSE j \in 4..Len(s) :
             s[j] = "}" /\ \A i \in 4..(j - 1) : s[i] # "}"
    ELSE 0

\* lines 85-98: the replacer
replacer(match, e) ==
    LET varName  == SubSeq(match, 3, Len(match) - 1)
        varValue == Getenv(e, varName)
    IN  IF varValue = <<>> THEN match ELSE varValue

\* lines 101 and 106: re.ReplaceAllStringFunc(s, replacer), the leftmost
\* matches that do not overlap, each replaced once
RECURSIVE ReplaceAllStringFunc(_, _)
ReplaceAllStringFunc(s, e) ==
    IF Len(s) = 0 THEN <<>>
    ELSE IF MatchLen(s) = 0
    THEN <<s[1]>> \o ReplaceAllStringFunc(Tail(s), e)
    ELSE replacer(SubSeq(s, 1, MatchLen(s)), e)
             \o ReplaceAllStringFunc(SubSeq(s, MatchLen(s) + 1, Len(s)), e)

\* everything of Bind at rest
BindAtRest ==
    /\ target = [kind |-> "ptr", fields |-> ConfigZero]
    /\ rPath = <<>>
    /\ env = <<>>
    /\ calls = 0
    /\ bindPc = "idle"
    /\ idx = 0
    /\ loadedVars = {}
    /\ wg = 0
    /\ Ce = <<>>
    /\ closed = FALSE
    /\ errors = <<>>
    /\ ret = Pending
    /\ loaders = EmptyBag
    /\ env0 = env
    /\ target0 = target.fields
    /\ writes = <<>>
    /\ results = <<>>
    /\ launched = <<>>

\* a call expandVariables(value) in some environment
InitExpand ==
    /\ BindAtRest
    /\ expEnv \in ExpEnvInputs
    /\ expValue \in ExpValueInputs
    /\ expanded = <<>>
    /\ expPc = "first"

bvars == <<target, rPath, env, calls, bindPc, idx, loadedVars, wg, Ce, closed,
           errors, ret, loaders, env0, target0, writes, results, launched>>

\* line 101: the first round of replacements
ExpandFirst ==
    /\ expPc = "first"
    /\ expanded' = ReplaceAllStringFunc(expValue, expEnv)
    /\ expPc' = "loop"
    /\ UNCHANGED <<expEnv, expValue>>
    /\ UNCHANGED bvars

\* lines 105-111: one turn of the loop, which has no bound
ExpandLoop ==
    /\ expPc = "loop"
    /\ LET expandedValueNew == ReplaceAllStringFunc(expanded, expEnv)
       IN  IF expandedValueNew = expanded
           THEN /\ expPc' = "done"
                /\ UNCHANGED expanded
           ELSE /\ expanded' = expandedValueNew
                /\ expPc' = IF Len(expandedValueNew) > Len(expValue) + MaxGrow
                            THEN "toolong" ELSE "loop"
    /\ UNCHANGED <<expEnv, expValue>>
    /\ UNCHANGED bvars

\* line 113: return expandedValue, nil
ExpandReturn ==
    /\ expPc = "done"
    /\ expPc' = "returned"
    /\ UNCHANGED <<expEnv, expValue, expanded>>
    /\ UNCHANGED bvars

expandVariables == ExpandFirst \/ ExpandLoop \/ ExpandReturn

\* the function runs in one goroutine: a step that can be taken is taken
SpecExpand == InitExpand /\ [][expandVariables]_vars /\ WF_vars(expandVariables)

\* C18: every call of expandVariables comes to a pass that changes nothing
\* (or the value leaves the lengths the model follows), also when a
\* variable's value names itself or a cycle of variables.
C18_ExpansionTerminates == <>(expPc \in {"done", "returned", "toolong"})

\* the names of the placeholders in s
RECURSIVE Names(_)
Names(s) ==
    IF Len(s) = 0 THEN {}
    ELSE IF MatchLen(s) = 0 THEN Names(Tail(s))
    ELSE {SubSeq(s, 3, MatchLen(s) - 1)}
             \cup Names(SubSeq(s, MatchLen(s) + 1, Len(s)))

\* C19: the result of expandVariables is a fixed point of the replacement,
\* holds no placeholder of a variable that is set, keeps the placeholders of
\* the variables that are not set, and is "x/y" for "${A}/${B}" with A=x and
\* B=y.
C19_ExpansionResult ==
    expPc = "returned" =>
        /\ ReplaceAllStringFunc(expanded, expEnv) = expanded
        /\ \A name \in Names(expanded) : name \notin DOMAIN expEnv
        /\ \A name \in Names(expValue) : name \notin DOMAIN expEnv => name \in Names(expanded)
        /\ (/\ expValue = Placeholder(kA) \o <<"/">> \o Placeholder(kB)
            /\ expEnv = (kA :> <<"x">>) @@ (kB :> <<"y">>))
               => expanded = <<"x", "/", "y">>

\* C20: for an integer field of any width and a value Bind passes to
\* convert, convert either stores the number the base-10 literal denotes or
\* returns an error and leaves the field as it was; it never stores a value
\* wrapped to the field's width.
C20_IntegerExact ==
    (bindPc = "bind" /\ idx <= Len(target.fields)) =>
        LET f == target.fields[idx]
            v == Getenv(env, f.tag)
        IN  (/\ v # <<>>
             /\ f.exported
             /\ f.kind \in IntKinds \cup UintKinds
             /\ f.typ # "time.Duration") =>
                \/ /\ convert(v, f).res = "nil"
                   /\ ParseInt(v).ok
                   /\ convert(v, f).field.val = ParseInt(v).v
                \/ /\ convert(v, f).res = "err"
                   /\ convert(v, f).field = f

\* the loader of directory d's file sends an error: the file exists and
\* cannot be opened, an os.Setenv fails, or the scanner ends with an error
Reports(d) ==
    /\ FS[d].exists
    /\ \/ ~FS[d].readable
       \/ FS[d].scanErr
       \/ \E n \in PairLines(d) : SetenvFails(KeyOf(TrimSpace(FS[d].lines[n])))

\* the channel of the current call is closed and drained
PastCollect ==
    bindPc \in {"gate", "bind"} \/ (bindPc = "returned" /\ target \in ValidTargets)

\* C21: the error channel is closed only when every loader has signalled
\* done, a loader that still has to send has not signalled done, no loader
\* sends on the closed channel, and after the drain Bind holds one error
\* for every loader that sent one.
C21_NoSendOnClosed ==
    /\ closed => loaders = EmptyBag /\ wg = 0
    /\ wg = BagCardinality(loaders)
    /\ \A s \in BagToSet(loaders) : s.pc = "send" => ~closed
    /\ ret # Err("panic", "send on closed channel", <<>>)
    /\ PastCollect =>
           /\ closed
           /\ Ce = <<>>
           /\ Len(errors) = Cardinality({a \in 1..Len(launched) : Reports(launched[a])})

\* C21 witness: two loaders sent an error before signalling done, the
\* channel is closed and Bind has collected both errors.
C21_Witness ==
    /\ bindPc = "gate"
    /\ closed
    /\ Len(launched) = 2
    /\ Len(errors) = 2
    /\ errors[1] # errors[2]

====
